---- MODULE Spec2Model ----
(***************************************************************************)
(* Model of docs/script.js: the click handler attached to every .copy-btn  *)
(* button and the showToast function.                                      *)
(*                                                                         *)
(* JavaScript runs each handler segment (from the click to the await, and  *)
(* from the resumption after the await to the end of the handler) and each *)
(* timer callback to completion, so each of those is one action.  The      *)
(* statements of a segment are composed as functions on a record S holding *)
(* the DOM state the script touches, in the order the source runs them.    *)
(*                                                                         *)
(* All timers of the script have the same delay, so the browser runs them  *)
(* in the order they were created: the timer list is a FIFO queue.  A      *)
(* timer never runs before its delay has elapsed, and may run later: the   *)
(* field remaining of a timer is the time left until it is due.            *)
(*                                                                         *)
(* The two string literals of the source are not ASCII; COPIED_TEXT and    *)
(* TOAST_MSG stand for them.                                               *)
(***************************************************************************)
EXTENDS Integers, Sequences, FiniteSets, Bags, TLC

VARIABLES
    hasToast,       \* the page holds an element with id "toast"
    hasClipboard,   \* navigator.clipboard is defined on this page
    dataset,        \* dataset[b]: <<s>> when b carries data-url="s", <<>> when it carries none
    textContent,    \* textContent[b]: the label of button b
    copied,         \* copied[b]: b.classList contains 'copied'
    toastText,      \* toast.textContent
    toastShow,      \* toast.classList contains 'show'
    textareas,      \* number of textarea elements the script has left in document.body
    inFlight,       \* bag of the handlers suspended at the await of line 7
    timers,         \* pending setTimeout callbacks, in creation order
    last            \* history: what the latest step did

vars == <<hasToast, hasClipboard, dataset, textContent, copied, toastText, toastShow,
          textareas, inFlight, timers, last>>

----------------------------------------------------------------------------
(* Bounds of the model *)

MaxInFlight == 1
MaxTimers == 3
MaxLeaked == 1
TICK == 1000

(* Program constants *)

DELAY == 2000

COPIED_TEXT == "<copied>"
TOAST_MSG == "<link copied to clipboard>"

(* The page the script is loaded into *)

Buttons == {"A", "B"}

Baseline == [b \in Buttons |-> IF b = "A" THEN "Copy" ELSE "Copy link"]

\* The data-url attributes of the buttons: a URL with special characters, the
\* empty string, or no attribute at all.
URL == "https://example.com/page?a=1&b=%20"

Datasets ==
    {[b \in Buttons |-> IF b = "A" THEN <<URL>> ELSE <<"">>],
     [b \in Buttons |-> IF b = "A" THEN <<>> ELSE <<URL>>]}

ExecResults == {"true", "false", "throw"}

----------------------------------------------------------------------------
(* Helpers *)

Max(a, b) == IF a > b THEN a ELSE b

Pending(kind) == {i \in 1..Len(timers) : timers[i].kind = kind}

PendingIn(q, kind) == {i \in 1..Len(q) : q[i].kind = kind}

RevertsFor(b) == {i \in Pending("revert") : timers[i].btn = b}

InFlightFor(b) == {h \in BagToSet(inFlight) : h.btn = b}

\* A JavaScript value handed to a DOMString parameter or attribute:
\* undefined becomes the string "undefined", a string is kept as it is.
ToDOMString(v) == IF v = <<>> THEN "undefined" ELSE v[1]

----------------------------------------------------------------------------
(* The state a handler segment works on, and the log of what it did *)

Page ==
    [textContent |-> textContent, copied |-> copied,
     toastText |-> toastText, toastShow |-> toastShow,
     textareas |-> textareas, timers |-> timers,
     threw |-> FALSE,          \* an exception is propagating
     fallbackRan |-> FALSE,    \* the catch block was entered
     textareaValue |-> "",     \* the value given to the temporary textarea
     execCalls |-> 0,          \* calls of document.execCommand('copy')
     execResult |-> "",        \* how the latest of those calls ended
     toastCalls |-> 0,         \* calls of showToast
     toastsShown |-> 0]        \* calls of showToast that completed

NoTimer ==
    [kind |-> "none", btn |-> "", originalText |-> "", remaining |-> 0]

\* setTimeout(() => { toast.classList.remove('show') }, 2000)
\* Variant of the hide timer with no delay.
HideTimerNoDelay ==
    [NoTimer EXCEPT !.kind = "hide", !.remaining = 0]

HideTimer ==
    [NoTimer EXCEPT !.kind = "hide", !.remaining = DELAY]

\* setTimeout(() => { btn.textContent = originalText; btn.classList.remove('copied') }, 2000)
RevertTimer(b, originalText) ==
    [NoTimer EXCEPT !.kind = "revert", !.btn = b, !.originalText = originalText,
                    !.remaining = DELAY]

----------------------------------------------------------------------------
(* The functions of the script *)

\* Variant of showToast that cancels the pending hide timers (clearTimeout)
\* before it schedules its own.
showToastCancelling(S, message) ==
    IF ~hasToast
    THEN [S EXCEPT !.toastCalls = @ + 1, !.threw = TRUE]
    ELSE [S EXCEPT !.toastCalls = @ + 1, !.toastsShown = @ + 1,
                   !.toastText = message, !.toastShow = TRUE,
                   !.timers = Append(SelectSeq(@, LAMBDA t : t.kind # "hide"), HideTimer)]

\* function showToast(message): document.getElementById('toast') is null when
\* the page has no such element, and the assignment of line 41 then throws
\* before anything is changed or scheduled.
showToast(S, message) ==
    IF ~hasToast
    THEN [S EXCEPT !.toastCalls = @ + 1, !.threw = TRUE]
    ELSE [S EXCEPT !.toastCalls = @ + 1, !.toastsShown = @ + 1,
                   !.toastText = message, !.toastShow = TRUE,
                   !.timers = Append(@, HideTimer)]

\* Variant of the catch block that gives the button the feedback of the try
\* block.
catchBlockWithFeedback(S, b, url, execResult) ==
    LET S1 == [S EXCEPT !.fallbackRan = TRUE,
                        !.textareaValue = ToDOMString(url),
                        !.textareas = @ + 1,
                        !.execCalls = @ + 1,
                        !.execResult = execResult]
    IN  IF execResult = "throw"
        THEN [S1 EXCEPT !.threw = TRUE]
        ELSE showToast([S1 EXCEPT !.textareas = @ - 1,
                                  !.textContent[b] = COPIED_TEXT,
                                  !.copied[b] = TRUE], TOAST_MSG)

\* Variant of the catch block that shows a message of its own.
catchBlockOwnMessage(S, b, url, execResult) ==
    LET S1 == [S EXCEPT !.fallbackRan = TRUE,
                        !.textareaValue = ToDOMString(url),
                        !.textareas = @ + 1,
                        !.execCalls = @ + 1,
                        !.execResult = execResult]
    IN  IF execResult = "throw"
        THEN [S1 EXCEPT !.threw = TRUE]
        ELSE showToast([S1 EXCEPT !.textareas = @ - 1], "<copied with the fallback>")

\* The catch block, in the closure of button b: the textarea is appended, execCommand is called, the
\* textarea is removed and showToast is called.  execCommand returns true or
\* false, or throws; when it throws, lines 31 and 33 do not run and the
\* exception leaves the handler.
catchBlock(S, b, url, execResult) ==
    LET S1 == [S EXCEPT !.fallbackRan = TRUE,
                        !.textareaValue = ToDOMString(url),
                        !.textareas = @ + 1,
                        !.execCalls = @ + 1,
                        !.execResult = execResult]
    IN  IF execResult = "throw"
        THEN [S1 EXCEPT !.threw = TRUE]
        ELSE showToast([S1 EXCEPT !.textareas = @ - 1], TOAST_MSG)

\* Variant of the try block that reads originalText after line 11 has set the
\* label.
tryBlockLateCapture(S, h, execResult) ==
    LET b == h.btn
        S1 == [S EXCEPT !.textContent[b] = COPIED_TEXT, !.copied[b] = TRUE]
        originalText == S1.textContent[b]
        S2 == showToast(S1, TOAST_MSG)
    IN  IF S2.threw
        THEN catchBlock([S2 EXCEPT !.threw = FALSE], b, h.url, execResult)
        ELSE [S2 EXCEPT !.timers = Append(@, RevertTimer(b, originalText))]

\* Variant of the try block that restores a hardcoded default label.
tryBlockDefaultLabel(S, h, execResult) ==
    LET b == h.btn
        originalText == Baseline[b]
        S1 == [S EXCEPT !.textContent[b] = COPIED_TEXT, !.copied[b] = TRUE]
        S2 == showToast(S1, TOAST_MSG)
    IN  IF S2.threw
        THEN catchBlock([S2 EXCEPT !.threw = FALSE], b, h.url, execResult)
        ELSE [S2 EXCEPT !.timers = Append(@, RevertTimer(b, originalText))]

\* Variant of the try block that cancels the button's pending reversion
\* timers before scheduling its own.
tryBlockCancelling(S, h, execResult) ==
    LET b == h.btn
        originalText == S.textContent[b]
        S1 == [S EXCEPT !.textContent[b] = COPIED_TEXT, !.copied[b] = TRUE]
        S2 == showToast(S1, TOAST_MSG)
        Other(t) == ~(t.kind = "revert" /\ t.btn = b)
    IN  IF S2.threw
        THEN catchBlock([S2 EXCEPT !.threw = FALSE], b, h.url, execResult)
        ELSE [S2 EXCEPT !.timers =
                 Append(SelectSeq(@, Other), RevertTimer(b, originalText))]

\* The try block after the await of line 7 has completed: lines 10 to 21.  An
\* exception thrown by showToast at line 15 is caught by the catch of line 22,
\* so the catch block runs and the timer of line 18 is not created.
tryBlock(S, h, execResult) ==
    LET b == h.btn
        originalText == S.textContent[b]
        S1 == [S EXCEPT !.textContent[b] = COPIED_TEXT, !.copied[b] = TRUE]
        S2 == showToast(S1, TOAST_MSG)
    IN  IF S2.threw
        THEN catchBlock([S2 EXCEPT !.threw = FALSE], b, h.url, execResult)
        ELSE [S2 EXCEPT !.timers =
                 Append(@, RevertTimer(b, originalText))]

\* Variant of the reversion callback that removes 'copied' from every button.
revertCallbackAll(S, t) ==
    [S EXCEPT !.textContent[t.btn] = t.originalText,
              !.copied = [b \in Buttons |-> FALSE]]

\* The callback of lines 18 to 21.
revertCallback(S, t) ==
    [S EXCEPT !.textContent[t.btn] = t.originalText, !.copied[t.btn] = FALSE]

\* Variant of the hide callback that leaves the toast alone while a later
\* hide timer is pending.
hideCallbackIfLatest(S, t) ==
    IF PendingIn(S.timers, "hide") = {} THEN [S EXCEPT !.toastShow = FALSE] ELSE S

\* The callback of lines 44 to 46.
hideCallback(S, t) ==
    [S EXCEPT !.toastShow = FALSE]

\* Variant of lines 4 to 7 that copies the label of the button instead of its
\* data-url attribute.
startWriteLabel(b) ==
    [btn |-> b, url |-> <<textContent[b]>>, writeArg |-> ToDOMString(<<textContent[b]>>),
     labelAtClick |-> textContent[b],
     alone |-> (InFlightFor(b) = {} /\ RevertsFor(b) = {})]

\* Lines 4 to 7 up to the call: the handler reads the payload and hands it to
\* navigator.clipboard.writeText.  labelAtClick and alone are history: the
\* label at the click, and whether no other handler of b is suspended and no
\* reversion timer of b is pending.
startWrite(b) ==
    [btn |-> b, url |-> dataset[b], writeArg |-> ToDOMString(dataset[b]),
     labelAtClick |-> textContent[b],
     alone |-> (InFlightFor(b) = {} /\ RevertsFor(b) = {})]

----------------------------------------------------------------------------
(* Actions *)

NoHandler ==
    [btn |-> "", url |-> <<>>, writeArg |-> "", labelAtClick |-> "", alone |-> FALSE]

Event(kind, h, S, fired) ==
    [kind |-> kind, btn |-> h.btn, url |-> h.url, writeArg |-> h.writeArg,
     labelAtClick |-> h.labelAtClick, alone |-> h.alone, fired |-> fired,
     shownBefore |-> toastShow,
     fallbackRan |-> S.fallbackRan, textareaValue |-> S.textareaValue,
     execCalls |-> S.execCalls, execResult |-> S.execResult,
     toastCalls |-> S.toastCalls,
     toastsShown |-> S.toastsShown, threw |-> S.threw]

Install(S) ==
    /\ Len(S.timers) <= MaxTimers
    /\ S.textareas <= MaxLeaked
    /\ textContent' = S.textContent
    /\ copied' = S.copied
    /\ toastText' = S.toastText
    /\ toastShow' = S.toastShow
    /\ textareas' = S.textareas
    /\ timers' = S.timers

Init ==
    /\ hasToast \in BOOLEAN
    /\ hasClipboard \in BOOLEAN
    /\ dataset \in Datasets
    /\ textContent = Baseline
    /\ copied = [b \in Buttons |-> FALSE]
    /\ toastText = ""
    /\ toastShow = FALSE
    /\ textareas = 0
    /\ inFlight = EmptyBag
    /\ timers = <<>>
    /\ last = Event("init", NoHandler, Page, NoTimer)

\* A click on b where navigator.clipboard is defined: writeText returns a
\* promise and the handler is suspended at the await.
Click(b) ==
    /\ hasClipboard
    /\ BagCardinality(inFlight) < MaxInFlight
    /\ LET h == startWrite(b)
           was == {g \in InFlightFor(b) : g.alone}
           now == {[g EXCEPT !.alone = FALSE] : g \in was}
       IN  /\ inFlight' = ((inFlight (-) SetToBag(was)) (+) SetToBag(now)) (+) SetToBag({h})
           /\ last' = Event("click", h, Page, NoTimer)
    /\ UNCHANGED <<hasToast, hasClipboard, dataset, textContent, copied, toastText,
                   toastShow, textareas, timers>>

\* A click on b where navigator.clipboard is undefined: line 7 throws a
\* TypeError inside the try, and the catch block runs in the same task.
ClickNoClipboard(b, execResult) ==
    /\ ~hasClipboard
    /\ LET h == [startWrite(b) EXCEPT !.writeArg = ""]
           S == catchBlock(Page, h.btn, h.url, execResult)
       IN  /\ Install(S)
           /\ last' = Event("clickThrow", h, S, NoTimer)
    /\ UNCHANGED <<hasToast, hasClipboard, dataset, inFlight>>

\* The promise of the suspended handler h is fulfilled.
ResolveWrite(h, execResult) ==
    /\ BagIn(h, inFlight)
    /\ LET S == tryBlock(Page, h, execResult)
       IN  /\ Install(S)
           /\ last' = Event("resolve", h, S, NoTimer)
    /\ inFlight' = inFlight (-) SetToBag({h})
    /\ UNCHANGED <<hasToast, hasClipboard, dataset>>

\* The promise of the suspended handler h is rejected.
RejectWrite(h, execResult) ==
    /\ BagIn(h, inFlight)
    /\ LET S == catchBlock(Page, h.btn, h.url, execResult)
       IN  /\ Install(S)
           /\ last' = Event("reject", h, S, NoTimer)
    /\ inFlight' = inFlight (-) SetToBag({h})
    /\ UNCHANGED <<hasToast, hasClipboard, dataset>>

\* The oldest timer runs, its delay having elapsed.
FireTimer ==
    /\ timers # <<>>
    /\ Head(timers).remaining <= 0
    /\ LET t == Head(timers)
           S0 == [Page EXCEPT !.timers = Tail(timers)]
           S == IF t.kind = "revert" THEN revertCallback(S0, t) ELSE hideCallback(S0, t)
       IN  /\ Install(S)
           /\ last' = Event("timer", [NoHandler EXCEPT !.btn = t.btn], S, t)
    /\ UNCHANGED <<hasToast, hasClipboard, dataset, inFlight>>

\* Time passes.
Tick ==
    /\ timers' = [i \in 1..Len(timers) |->
                    [timers[i] EXCEPT !.remaining = Max(@ - TICK, 0)]]
    /\ last' = Event("tick", NoHandler, Page, NoTimer)
    /\ UNCHANGED <<hasToast, hasClipboard, dataset, textContent, copied, toastText,
                   toastShow, textareas, inFlight>>

Next ==
    \/ \E b \in Buttons : Click(b)
    \/ \E b \in Buttons, r \in ExecResults : ClickNoClipboard(b, r)
    \/ \E h \in BagToSet(inFlight), r \in ExecResults : ResolveWrite(h, r)
    \/ \E h \in BagToSet(inFlight), r \in ExecResults : RejectWrite(h, r)
    \/ FireTimer
    \/ Tick

Spec == Init /\ [][Next]_vars

\* The event loop runs a due timer, and time does not stop.
FairSpec == Spec /\ WF_vars(FireTimer) /\ WF_vars(Tick)

----------------------------------------------------------------------------
(* Properties.  last describes the step that led to the current state, so a  *)
(* state predicate on last speaks of the state right after that step; a      *)
(* property that compares with the state before the step is an action        *)
(* formula, in which last' describes the step itself.                        *)

IsRevert(t) == t.kind = "revert"

IsHide(t) == t.kind = "hide"

Reverts(q) == SelectSeq(q, IsRevert)

Hides(q) == SelectSeq(q, IsHide)

IsPrefix(p, q) == Len(p) <= Len(q) /\ SubSeq(q, 1, Len(p)) = p

\* The handler of the latest step resumed after a fulfilled write.
Resumed == last.kind = "resolve"

\* The write of the latest step's click was rejected, or line 7 threw.
WriteFailed == last.kind \in {"reject", "clickThrow"}

\* The latest step ran a reversion timer / a hide timer.
RevertFired == last.kind = "timer" /\ last.fired.kind = "revert"

HideFired == last.kind = "timer" /\ last.fired.kind = "hide"

\* C1: Primary success.  On a page with the toast element, when the handler of
\* a click on a button with no other click in flight and no pending reversion
\* timer resumes after a successful write, the label is the copied indicator,
\* the button carries 'copied', the toast is visible with the confirmation
\* message, and the reversion timer scheduled for the click holds the label
\* the button had before the click; and a reversion timer that runs installs
\* the label it holds and removes 'copied'.
C1_PrimarySuccess ==
    /\ (Resumed /\ last.alone /\ hasToast) =>
          /\ textContent[last.btn] = COPIED_TEXT
          /\ copied[last.btn]
          /\ toastShow
          /\ toastText = TOAST_MSG
          /\ timers # <<>>
          /\ timers[Len(timers)] = RevertTimer(last.btn, last.labelAtClick)
    /\ RevertFired =>
          /\ textContent[last.btn] = last.fired.originalText
          /\ ~copied[last.btn]

C1_Witness ==
    /\ Resumed /\ last.alone /\ hasToast
    /\ textContent[last.btn] = COPIED_TEXT
    /\ timers[Len(timers)].originalText = Baseline[last.btn]

\* C2: Fallback asymmetry.  A step in which a click's write is rejected or
\* throws leaves every button's label and 'copied' state as they were and
\* schedules no reversion timer.
C2_FallbackLeavesButton ==
    [][last'.kind \in {"reject", "clickThrow"} =>
          /\ textContent' = textContent
          /\ copied' = copied
          /\ Reverts(timers') = Reverts(timers)]_vars

C2_Witness ==
    /\ WriteFailed /\ last.fallbackRan /\ last.toastsShown = 1
    /\ textContent[last.btn] = COPIED_TEXT
    /\ copied[last.btn]

\* C3: Payload integrity.  For a button that carries the payload s, the value
\* handed to writeText is s, and the value of the temporary textarea of the
\* fallback is s.
C3_PayloadIntegrity ==
    /\ \A h \in BagToSet(inFlight) :
          dataset[h.btn] # <<>> => h.writeArg = dataset[h.btn][1]
    /\ (last.kind \in {"click", "resolve", "reject"} /\ dataset[last.btn] # <<>>) =>
          last.writeArg = dataset[last.btn][1]
    /\ (last.fallbackRan /\ dataset[last.btn] # <<>>) =>
          last.textareaValue = dataset[last.btn][1]

C3_Witness ==
    /\ last.kind = "reject" /\ last.fallbackRan
    /\ last.writeArg = URL
    /\ last.textareaValue = URL

\* C4: The fallback runs only on write failure.  Whenever the fallback steps
\* ran in a step, that step's write was rejected or threw, and showToast was
\* called at most once.
C4_FallbackOnlyOnFailure ==
    /\ last.fallbackRan => WriteFailed
    /\ last.toastCalls <= 1

\* C5: The temporary element is always removed.  Between steps the document
\* holds no textarea created by the fallback.
C5_NoTemporaryElement == textareas = 0

\* The pending timers without their clocks.
Core(q) == [i \in 1..Len(q) |-> [q[i] EXCEPT !.remaining = 0]]

\* A step keeps every pending timer, or runs the oldest one.
KeepsTimers ==
    \/ IsPrefix(Core(timers), Core(timers'))
    \/ last'.kind = "timer" /\ Core(timers') = Tail(Core(timers))

\* C6: Button returns to baseline.  On a page with the toast element, a
\* button with no suspended handler and no pending reversion timer shows its
\* baseline label and does not carry 'copied'.
C6_ReturnsToBaseline ==
    \A b \in Buttons :
        (hasToast /\ InFlightFor(b) = {} /\ RevertsFor(b) = {}) =>
            textContent[b] = Baseline[b] /\ ~copied[b]

OneHideShown == toastShow /\ Len(Hides(timers)) = 1

\* C8 as stated: the visible flag is not removed earlier than DELAY after the
\* latest trigger, whose hide timer is the newest pending one.
C8_HiddenNoEarlierThanDelay ==
    [][(toastShow /\ ~toastShow') =>
          Hides(timers)[Len(Hides(timers))].remaining <= 0]_vars

\* C8: Toast auto-hide.  A trigger made while no hide timer is pending makes
\* the toast visible and schedules one hide timer with the full delay; until
\* a further trigger the toast stays visible while that timer is pending, the
\* flag is removed by that timer and not before its delay has elapsed, the
\* toast is not visible while no hide timer is pending, and the toast does
\* not stay visible forever.
C8_ToastAutoHide ==
    /\ [][(Hides(timers) = <<>> /\ last'.toastsShown > 0) =>
             /\ toastShow'
             /\ Len(Hides(timers')) = 1
             /\ Hides(timers')[1].remaining = DELAY]_vars
    /\ [][(OneHideShown /\ last'.toastsShown = 0) =>
             \/ OneHideShown'
             \/ /\ last'.kind = "timer"
                /\ Head(timers).kind = "hide"
                /\ Head(timers).remaining <= 0
                /\ ~toastShow'
                /\ Hides(timers') = <<>>]_vars
    /\ [](Hides(timers) = <<>> => ~toastShow)
    /\ (OneHideShown ~> ~toastShow)

C8_Witness ==
    /\ HideFired /\ last.shownBefore /\ last.fired.remaining = 0
    /\ ~toastShow
    /\ Hides(timers) = <<>>

\* C9 as stated: when a hide timer runs while a later trigger's hide timer is
\* pending, the toast becomes invisible less than DELAY after that later
\* trigger, that is, before the later timer is due.
C9_HiddenBeforeSecondDue ==
    [][(last'.kind = "timer" /\ Head(timers).kind = "hide" /\ Len(Hides(timers)) > 1) =>
          ~toastShow' /\ Hides(timers)[2].remaining > 0]_vars

\* C9: Overlapping toast triggers hide early.  A trigger cancels no pending
\* timer; a hide timer runs no earlier than DELAY after its trigger and
\* removes the visible flag also while the hide timer of a later trigger is
\* pending, that is, before the later trigger's own timer runs.
C9_OverlapHidesEarly ==
    /\ [][last'.toastsShown > 0 => IsPrefix(timers, timers')]_vars
    /\ [][KeepsTimers]_vars
    /\ [][(last'.kind = "timer" /\ Head(timers).kind = "hide") =>
             /\ Head(timers).remaining <= 0
             /\ ~toastShow'
             /\ Hides(timers') = Tail(Hides(timers))]_vars

C9_Witness ==
    /\ HideFired /\ last.shownBefore
    /\ ~toastShow
    /\ \E i \in Pending("hide") : timers[i].remaining > 0

\* C10 as stated: the toast stops being visible at the firing of the most
\* recently scheduled hide timer, so it is visible while a hide timer is
\* pending.
C10_VisibleUntilLastTimer == (Pending("hide") # {}) => toastShow

\* C10: A trigger overwrites the message at once and makes the toast visible;
\* every hide timer that runs removes the visible flag, the oldest first, so
\* the toast stops being visible at the firing of the oldest pending hide
\* timer; and once the most recently scheduled hide timer has run, the toast
\* is not visible.
C10_FirstTimerHides ==
    /\ last.toastsShown > 0 => (toastText = TOAST_MSG /\ toastShow)
    /\ HideFired => ~toastShow
    /\ (Pending("hide") = {}) => ~toastShow

C10_Witness ==
    /\ HideFired /\ last.shownBefore
    /\ ~toastShow
    /\ Pending("hide") # {}
    /\ toastText = TOAST_MSG

\* C11: ShowingCopied always returns to Idle.  On every page, a button that
\* carries 'copied' has a reversion timer pending for it.
C11_CopiedHasPendingRevert ==
    \A b \in Buttons : copied[b] => RevertsFor(b) # {}

C13_FallbackFailureSilent ==
    (last.kind = "reject" /\ hasToast /\ last.execResult \in {"false", "throw"}) =>
        /\ last.toastsShown = 1
        /\ toastShow
        /\ toastText = TOAST_MSG
        /\ ~last.threw

\* The two executions that C14 compares start in the same state with the
\* handler h suspended and differ in the outcome of its write: AfterSuccess
\* is the page after h resumed from a fulfilled write, AfterFallback the page
\* after h resumed from a rejected write and execCommand returned true.
AfterSuccess(h) == tryBlock(Page, h, "true")

AfterFallback(h) == catchBlock(Page, h.btn, h.url, "true")

\* C14 as stated: the two executions show the same toast and the same label
\* and 'copied' state of every button.
C14_SameVisibleState ==
    hasToast =>
        \A h \in BagToSet(inFlight) :
            /\ AfterSuccess(h).toastText = AfterFallback(h).toastText
            /\ AfterSuccess(h).toastShow = AfterFallback(h).toastShow
            /\ AfterSuccess(h).textContent = AfterFallback(h).textContent
            /\ AfterSuccess(h).copied = AfterFallback(h).copied

\* C14: Primary and fallback success show the same toast.  The two
\* executions have the same toast text and visibility and the same pending
\* hide timers, and the same label and 'copied' state of every button but the
\* clicked one; the clicked button shows the copied indicator and carries
\* 'copied' after the success, and is unchanged after the fallback.
C14_SameToastOnly ==
    \A h \in BagToSet(inFlight) :
        LET P == AfterSuccess(h)
            F == AfterFallback(h)
        IN  /\ P.toastText = F.toastText
            /\ P.toastShow = F.toastShow
            /\ Hides(P.timers) = Hides(F.timers)
            /\ \A b \in Buttons \ {h.btn} :
                  P.textContent[b] = F.textContent[b] /\ P.copied[b] = F.copied[b]
            /\ P.textContent[h.btn] = COPIED_TEXT /\ P.copied[h.btn]
            /\ F.textContent[h.btn] = textContent[h.btn]
            /\ F.copied[h.btn] = copied[h.btn]

C14_Witness ==
    /\ hasToast
    /\ \E h \in BagToSet(inFlight) :
          /\ AfterSuccess(h).toastText = TOAST_MSG
          /\ AfterFallback(h).toastText = TOAST_MSG
          /\ AfterSuccess(h).copied[h.btn]
          /\ ~AfterFallback(h).copied[h.btn]

\* The steps that run handler code (a click, a resumption, a rejection).
HandlerStep == last'.kind \in {"click", "clickThrow", "resolve", "reject"}

C16_AbsentPayloadIsEmpty ==
    /\ \A h \in BagToSet(inFlight) : dataset[h.btn] = <<>> => h.writeArg = ""
    /\ (last.fallbackRan /\ dataset[last.btn] = <<>>) => last.textareaValue = ""

====
